---- MODULE Spec2Model ----
(***************************************************************************)
(* Verification pipeline of the credential verifier SDK:                   *)
(*   VerifierImpl.verify  (src/src/core/index.ts)                          *)
(*   W3cHandler           (src/src/handlers/w3c-handler.ts)                *)
(*   SdJwtHandler         (src/src/handlers/sd-jwt-handler.ts)             *)
(*   MdlHandler           (src/src/protocol-adapters/siop-adapter.ts)      *)
(*   crypto suites, AgeVerificationPolicy, EudiPolicy                      *)
(*                                                                         *)
(* JavaScript values are encoded as follows.                               *)
(*   - an optional value (a property that may be undefined) is a sequence  *)
(*     of length 0 (Nothing) or 1 (Some(v));                               *)
(*   - an object whose values are only tested for truthiness is the set of *)
(*     its keys that hold a truthy value (claims, credentialSubject);      *)
(*   - a string built by join(', ') is the sequence of the joined parts;   *)
(*   - a plain object used as a dictionary is a function on its own keys,  *)
(*     and a lookup falls back to Object.prototype (GetProp).              *)
(***************************************************************************)
EXTENDS Integers, Sequences, FiniteSets, TLC

\* ------------------------------------------------------------------ bounds
MaxHandlers  == 2   \* length of the handler list
MaxRequested == 2   \* length of request.policies
MaxCreds     == 1   \* credentials carried by one presentation
MaxCalls     == 3   \* verify calls made on one verifier, overlapping or not
MaxOps       == 4   \* handlers registered on one verifier over its lifetime

\* ------------------------------------------------------- optional values
Nothing == << >>
Some(v) == << v >>
IsSome(o) == Len(o) = 1
Val(o) == o[1]

SeqUpTo(S, n) == UNION { [1..k -> S] : k \in 0..n }

\* --------------------------------------------------------------- proofs
\* Proof { type, jws?, sdJwt? }: type "" stands for a missing/empty tag,
\* sdJwt is "absent" (no such key), "empty" (key with a falsy value) or
\* "token".
MkProof(t, j, s) == [type |-> t, jws |-> j, sdJwt |-> s]

Ed25519Proof  == MkProof("Ed25519Signature2020", FALSE, "absent")
JwsProof      == MkProof("JsonWebSignature2020", TRUE, "absent")
JwsNoSigProof == MkProof("JsonWebSignature2020", FALSE, "absent")
EcdsaR1Proof  == MkProof("EcdsaSecp256r1Signature2019", FALSE, "absent")
UntypedProof  == MkProof("", FALSE, "absent")
RsaProof      == MkProof("RsaSignature2018", FALSE, "absent")
ProtoProof    == MkProof("toString", FALSE, "absent")
SdJwtProof    == MkProof("SD-JWT", FALSE, "token")
SdJwtEmpty    == MkProof("SD-JWT", FALSE, "empty")
SdJwtNoKey    == MkProof("SD-JWT", FALSE, "absent")

\* ---------------------------------------------------------- crypto suites
ed25519Suite(proof) == TRUE
ecdsaR1Suite(proof) == proof.type = "EcdsaSecp256r1Signature2019"
ecdsaR2Suite(proof) == proof.type = "EcdsaSecp256k1Signature2019"
bbsSuite(proof)     == proof.type = "BbsBlsSignature2020"
jwsSuite(proof)     == proof.type = "JsonWebSignature2020" /\ proof.jws
sdJwtSuite(proof)   == proof.type = "SD-JWT" /\ proof.sdJwt = "token"

verifyDeviceAuth(deviceAuth) == deviceAuth.deviceKey /\ deviceAuth.authSignature
verifyReaderAuth(readerAuth) ==
    readerAuth.readerCertificate /\ readerAuth.readerSignature

\* W3cHandler.cryptoSuites: proof type -> suite
cryptoSuites ==
    [t \in {"Ed25519Signature2020", "Ed25519Signature2018",
            "EcdsaSecp256r1Signature2019", "EcdsaSecp256k1Signature2019",
            "BbsBlsSignature2020", "JsonWebSignature2020"} |->
        CASE t = "Ed25519Signature2020" -> "ed25519Suite"
          [] t = "Ed25519Signature2018" -> "ed25519Suite"
          [] t = "EcdsaSecp256r1Signature2019" -> "ecdsaR1Suite"
          [] t = "EcdsaSecp256k1Signature2019" -> "ecdsaR2Suite"
          [] t = "BbsBlsSignature2020" -> "bbsSuite"
          [] OTHER -> "jwsSuite"]

verifyProof(suite, proof) ==
    CASE suite = "ed25519Suite" -> ed25519Suite(proof)
      [] suite = "ecdsaR1Suite" -> ecdsaR1Suite(proof)
      [] suite = "ecdsaR2Suite" -> ecdsaR2Suite(proof)
      [] suite = "bbsSuite"     -> bbsSuite(proof)
      [] OTHER                  -> jwsSuite(proof)

\* Property names every plain object inherits from Object.prototype.
ObjectPrototypeNames == {"toString", "constructor", "valueOf", "hasOwnProperty"}

\* obj[key] on a plain object: own property, inherited property or undefined.
GetProp(obj, key) ==
    IF key \in DOMAIN obj THEN [kind |-> "own", val |-> obj[key]]
    ELSE IF key \in ObjectPrototypeNames THEN [kind |-> "inherited", val |-> key]
    ELSE [kind |-> "undefined", val |-> key]

\* ------------------------------------------------------------ credentials
MkCred(ty, iss, subj, pr) ==
    [type |-> ty, issuer |-> iss, credentialSubject |-> subj, proof |-> pr]

PlainSubject == {"id"}
BornSubject  == {"id", "birth_date"}
EudiSubject  == {"id", "family_name", "given_name", "birth_date"}

GoodCred == MkCred(<<"VerifiableCredential">>, "did:example:issuer",
                   BornSubject, Some(Ed25519Proof))
EudiCred == MkCred(<<"VerifiableCredential", "EuropeanDigitalIdentityCredential">>,
                   "did:eu:trusted-issuer", EudiSubject, Some(JwsProof))

CredProofs ==
    {Nothing} \cup { Some(p) : p \in {Ed25519Proof, JwsProof, JwsNoSigProof, EcdsaR1Proof,
                                      UntypedProof, RsaProof, ProtoProof} }

FirstCreds ==
    { MkCred(<<"VerifiableCredential">>, "did:example:issuer", s, p) :
        s \in {PlainSubject, BornSubject}, p \in CredProofs }
    \cup {EudiCred}

\* credentials after the first one
TailCreds ==
    { GoodCred } \cup
    { MkCred(<<"VerifiableCredential">>, "did:example:other", PlainSubject, pr) :
        pr \in {Nothing, Some(RsaProof), Some(JwsNoSigProof)} }

VcLists ==
    {<< >>} \cup
    { <<c>> \o t : c \in FirstCreds, t \in SeqUpTo(TailCreds, MaxCreds - 1) }

\* -------------------------------------------------------- device response
MkAuth(k, s)   == [deviceKey |-> k, authSignature |-> s]
MkReader(c, s) == [readerCertificate |-> c, readerSignature |-> s]
MkDR(da, ra, md) == [deviceAuth |-> da, readerAuth |-> ra, mdoc |-> md]
\* mdoc { dataElements? }: dataElements is a function group name -> claims
MkMdoc(de) == [dataElements |-> de]

IsoGroup == "org.iso.18013.5.1"
NoGroups == [g \in {} |-> {}]
Groups(g, claims) == [x \in {g} |-> claims]

Mdocs == { Nothing, Some(MkMdoc(Nothing)), Some(MkMdoc(Some(NoGroups))),
           Some(MkMdoc(Some(Groups(IsoGroup, {})))),
           Some(MkMdoc(Some(Groups(IsoGroup, {"family_name", "birth_date"})))),
           Some(MkMdoc(Some(Groups("org.iso.18013.5.1.aamva", {"organ_donor"})))) }

ReaderAuths == { Nothing, Some(MkReader(TRUE, TRUE)), Some(MkReader(TRUE, FALSE)) }

GoodDR == MkDR(Some(MkAuth(TRUE, TRUE)), Nothing,
               Some(MkMdoc(Some(Groups(IsoGroup, {"family_name", "birth_date"})))))

DeviceResponses ==
    { MkDR(Some(MkAuth(TRUE, TRUE)), ra, md) : ra \in ReaderAuths, md \in Mdocs }
    \cup { MkDR(Nothing, Some(MkReader(TRUE, TRUE)), GoodDR.mdoc),
           MkDR(Some(MkAuth(TRUE, FALSE)), Some(MkReader(TRUE, TRUE)), GoodDR.mdoc),
           MkDR(Some(MkAuth(FALSE, TRUE)), Nothing, GoodDR.mdoc),
           MkDR(Some(MkAuth(TRUE, FALSE)), Some(MkReader(TRUE, FALSE)), GoodDR.mdoc),
           MkDR(Some(MkAuth(TRUE, FALSE)), Nothing, Nothing),
           MkDR(Nothing, Some(MkReader(TRUE, FALSE)), Nothing) }

\* ----------------------------------------------------------- presentations
\* Presentation { '@context'?, type, verifiableCredential?, holder, proof?,
\* deviceResponse? }.  type is an array of tags (isArray) or a single string.
MkType(arr, tags) == [isArray |-> arr, tags |-> tags]
VpType    == MkType(TRUE, <<"VerifiablePresentation">>)
OtherType == MkType(TRUE, <<"CustomEnvelope">>)
MdlType   == MkType(FALSE, <<"mDL">>)

MkPres(ctx, ty, vc, pr, dr) ==
    [context |-> ctx, type |-> ty, verifiableCredential |-> vc,
     holder |-> "did:example:holder", proof |-> pr, deviceResponse |-> dr]

W3cPresentations ==
    { MkPres(TRUE, VpType, Some(v), Nothing, Nothing) : v \in VcLists }

SdJwtPresentations ==
    { MkPres(TRUE, VpType, v, Some(p), Nothing) :
        v \in {Nothing, Some(<<GoodCred>>)},
        p \in {SdJwtProof, SdJwtEmpty, SdJwtNoKey, Ed25519Proof} }

MdlPresentations ==
    { MkPres(FALSE, MdlType, Nothing, Nothing, Some(d)) : d \in DeviceResponses }
    \cup { MkPres(FALSE, MdlType, Nothing, Nothing, Nothing) }

\* shapes that several handlers, one handler or no handler accept
MixedPresentations ==
    { MkPres(c, t, v, p, d) :
        c \in BOOLEAN, t \in {VpType, OtherType},
        v \in {Nothing, Some(<<GoodCred>>)},
        p \in {Nothing, Some(SdJwtProof)},
        d \in {Nothing, Some(GoodDR)} }

Presentations ==
    W3cPresentations \cup SdJwtPresentations \cup MdlPresentations
    \cup MixedPresentations

\* ------------------------------------------------------------ exceptions
\* A thrown value: an Error with a message, or a value that is not an Error.
MkError(m) == [isError |-> TRUE, message |-> m]
ThrownValue == [isError |-> FALSE, message |-> ""]
Throwables == { MkError("collaborator unavailable"), MkError(""), ThrownValue }

\* completion of a function body
Return(v) == [t |-> "return", value |-> v, exc |-> ThrownValue]
Throw(e)  == [t |-> "throw", value |-> << >>, exc |-> e]

\* ------------------------------------------------------ injected collaborators
\* What the collaborators of W3cHandler do during one verify call.
MkOutcome(t, active, reason, e) ==
    [t |-> t, active |-> active, reason |-> reason, exc |-> e]
Ok == MkOutcome("ok", TRUE, Nothing, ThrownValue)
Failures == { MkOutcome("throw", FALSE, Nothing, e) : e \in Throwables }

\* StatusChecker.checkStatus -> StatusResult { active, reason? } or throws
StatusOutcomes ==
    { Ok, MkOutcome("ok", FALSE, Nothing, ThrownValue),
      MkOutcome("ok", FALSE, Some("Credential suspended"), ThrownValue) }
    \cup Failures
\* DidResolver.resolve, SchemaRegistry.getSchema: resolve or throw
CallOutcomes == {Ok} \cup Failures

\* one verify call: at most one collaborator misbehaves (the first failure
\* ends the call, so a second one would not be observed)
MkEnv(st, did, schema) == [status |-> st, did |-> did, schema |-> schema]
NoEnv == MkEnv(Ok, Ok, Ok)
Envs == { MkEnv(st, Ok, Ok) : st \in StatusOutcomes }
        \cup { MkEnv(Ok, o, Ok) : o \in CallOutcomes }
        \cup { MkEnv(Ok, Ok, o) : o \in CallOutcomes }

\* ---------------------------------------------------------------- handlers
\* Handler instances: W3cHandler() , W3cHandler({statusChecker, didResolver,
\* schemaRegistry}), MdlHandler(), MdlHandler({enableReaderAuth: false}),
\* SdJwtHandler().
HandlerInstances ==
    {"W3cHandler", "W3cHandlerDI", "MdlHandler", "MdlHandlerNoReaderAuth",
     "SdJwtHandler"}

HasCollaborators(h) == h = "W3cHandlerDI"

\* variant: the enableReaderAuth option is not honoured
ReaderAuthAlwaysEnabled(h) == TRUE

\* this.enableReaderAuth = options.enableReaderAuth ?? true
enableReaderAuth(h) == h # "MdlHandlerNoReaderAuth"

\* HandlerResult { status, claims?, credentialType?, issuer?, holder?, error? }
Rejected(msg) ==
    [status |-> "rejected", claims |-> Nothing, credentialType |-> Nothing,
     issuer |-> Nothing, holder |-> Nothing, error |-> Some(msg)]
Verified(claims, ctype, iss, hold) ==
    [status |-> "verified", claims |-> Some(claims), credentialType |-> Some(ctype),
     issuer |-> iss, holder |-> hold, error |-> Nothing]

\* variant: the last credential is the one inspected
LastCredential(presentation) ==
    LET vc == presentation.verifiableCredential
    IN IF IsSome(vc) /\ Len(Val(vc)) > 0 THEN Some(Val(vc)[Len(Val(vc))]) ELSE Nothing

\* presentation.verifiableCredential?.[0]
FirstCredential(presentation) ==
    LET vc == presentation.verifiableCredential
    IN IF IsSome(vc) /\ Len(Val(vc)) > 0 THEN Some(Val(vc)[1]) ELSE Nothing

W3cCanHandle(presentation) ==
    \/ IsSome(presentation.verifiableCredential)
    \/ presentation.context
    \/ /\ presentation.type.isArray
       /\ \E i \in DOMAIN presentation.type.tags :
              presentation.type.tags[i] = "VerifiablePresentation"

\* the try block of W3cHandler.verify
W3cVerifyBody(h, presentation, env) ==
    LET credential == FirstCredential(presentation) IN
    IF ~IsSome(credential) THEN Return(Rejected("No verifiable credential"))
    ELSE LET cred  == Val(credential)
             st    == env.status
         IN
         IF HasCollaborators(h) /\ st.t = "throw" THEN Throw(st.exc)
         ELSE IF HasCollaborators(h) /\ ~st.active
         THEN Return(Rejected(IF IsSome(st.reason) THEN Val(st.reason)
                              ELSE "Credential revoked or suspended"))
         ELSE IF ~IsSome(cred.proof) THEN Return(Rejected("No proof found"))
         ELSE LET proof == Val(cred.proof)
                  cryptoSuite == GetProp(cryptoSuites, proof.type)
              IN
              IF proof.type = "" THEN Return(Rejected("Proof type not specified"))
              ELSE IF cryptoSuite.kind = "undefined"
              THEN Return(Rejected("Unsupported proof type: " \o proof.type))
              ELSE IF HasCollaborators(h) /\ cred.issuer # "" /\ env.did.t = "throw"
              THEN Throw(env.did.exc)
              \* credential.type is an array here, hence truthy
              ELSE IF HasCollaborators(h) /\ env.schema.t = "throw"
              THEN Throw(env.schema.exc)
              ELSE IF cryptoSuite.kind = "inherited"
              THEN Throw(MkError("cryptoSuite.verifyProof is not a function"))
              ELSE IF verifyProof(cryptoSuite.val, proof)
              THEN Return(Verified(cred.credentialSubject, cred.type,
                                   Some(cred.issuer), Some(presentation.holder)))
              ELSE Return(Rejected("Proof verification failed"))

\* variant: no catch block
NoCatch(body, unknownMessage) == body

\* the catch block: the exception becomes a rejected result
CatchAsRejected(body, unknownMessage) ==
    IF body.t = "throw"
    THEN Return(Rejected(IF body.exc.isError THEN body.exc.message
                         ELSE unknownMessage))
    ELSE body

W3cVerify(h, presentation, env) ==
    CatchAsRejected(W3cVerifyBody(h, presentation, env),
                    "Unknown error during W3C verification")

SdJwtCanHandle(presentation) ==
    /\ IsSome(presentation.proof)
    /\ Val(presentation.proof).type = "SD-JWT"
    /\ Val(presentation.proof).sdJwt # "absent"

\* variant: without a top-level proof the first credential's proof is used
SdJwtVerifyBodyNested(presentation) ==
    LET first == FirstCredential(presentation)
        proof == IF IsSome(presentation.proof) THEN presentation.proof
                 ELSE IF IsSome(first) THEN Val(first).proof ELSE Nothing
    IN IF \/ ~IsSome(proof)
          \/ Val(proof).type # "SD-JWT"
          \/ Val(proof).sdJwt = "absent"
       THEN Return(Rejected("No SD-JWT proof found"))
       ELSE IF sdJwtSuite(Val(proof))
       THEN Return(Verified(IF IsSome(first) THEN Val(first).credentialSubject ELSE {},
                            <<"SD-JWT">>,
                            IF IsSome(first) THEN Some(Val(first).issuer) ELSE Nothing,
                            Some(presentation.holder)))
       ELSE Return(Rejected("SD-JWT proof verification failed"))

SdJwtVerifyBody(presentation) ==
    LET proof == presentation.proof
        first == FirstCredential(presentation)
    IN IF \/ ~IsSome(proof)
          \/ Val(proof).type # "SD-JWT"
          \/ Val(proof).sdJwt = "absent"
       THEN Return(Rejected("No SD-JWT proof found"))
       ELSE IF sdJwtSuite(Val(proof))
       THEN Return(Verified(IF IsSome(first) THEN Val(first).credentialSubject ELSE {},
                            <<"SD-JWT">>,
                            IF IsSome(first) THEN Some(Val(first).issuer) ELSE Nothing,
                            Some(presentation.holder)))
       ELSE Return(Rejected("SD-JWT proof verification failed"))

SdJwtVerify(presentation) ==
    CatchAsRejected(SdJwtVerifyBody(presentation),
                    "Unknown error during SD-JWT verification")

MdlCanHandle(presentation) ==
    \/ IsSome(presentation.deviceResponse)
    \/ (~presentation.type.isArray /\ presentation.type.tags = <<"mDL">>)

\* variant: the reader authentication is verified before the device
\* authentication
MdlVerifyBodyReaderFirst(h, presentation) ==
    LET deviceResponse == presentation.deviceResponse IN
    IF ~IsSome(deviceResponse) THEN Return(Rejected("No device response"))
    ELSE LET dr == Val(deviceResponse) IN
         IF ~IsSome(dr.deviceAuth) THEN Return(Rejected("No device authentication"))
         ELSE IF /\ IsSome(dr.readerAuth) /\ enableReaderAuth(h)
                 /\ ~verifyReaderAuth(Val(dr.readerAuth))
         THEN Return(Rejected("Reader authentication failed"))
         ELSE IF ~verifyDeviceAuth(Val(dr.deviceAuth))
         THEN Return(Rejected("Device authentication failed"))
         ELSE IF ~IsSome(dr.mdoc) THEN Return(Rejected("No mDoc data"))
         ELSE LET dataElements == Val(dr.mdoc).dataElements IN
              IF ~IsSome(dataElements) \/ DOMAIN Val(dataElements) = {}
              THEN Return(Rejected("No data elements"))
              ELSE Return(Verified(
                       IF IsoGroup \in DOMAIN Val(dataElements)
                       THEN Val(dataElements)[IsoGroup] ELSE {},
                       <<"mDL">>, Some("mDL Device"), Some("mDL Holder")))

MdlVerifyBody(h, presentation) ==
    LET deviceResponse == presentation.deviceResponse IN
    IF ~IsSome(deviceResponse) THEN Return(Rejected("No device response"))
    ELSE LET dr == Val(deviceResponse) IN
         IF ~IsSome(dr.deviceAuth) THEN Return(Rejected("No device authentication"))
         ELSE IF ~verifyDeviceAuth(Val(dr.deviceAuth))
         THEN Return(Rejected("Device authentication failed"))
         ELSE IF /\ IsSome(dr.readerAuth) /\ enableReaderAuth(h)
                 /\ ~verifyReaderAuth(Val(dr.readerAuth))
         THEN Return(Rejected("Reader authentication failed"))
         ELSE IF ~IsSome(dr.mdoc) THEN Return(Rejected("No mDoc data"))
         ELSE LET dataElements == Val(dr.mdoc).dataElements IN
              IF ~IsSome(dataElements) \/ DOMAIN Val(dataElements) = {}
              THEN Return(Rejected("No data elements"))
              ELSE Return(Verified(
                       IF IsoGroup \in DOMAIN Val(dataElements)
                       THEN Val(dataElements)[IsoGroup] ELSE {},
                       <<"mDL">>, Some("mDL Device"), Some("mDL Holder")))

MdlVerify(h, presentation) ==
    CatchAsRejected(MdlVerifyBody(h, presentation),
                    "Unknown error during mDL verification")

\* a handler written by the integrator (README, "Handler Interface"): it
\* takes the presentations of its own envelope type
CustomCanHandle(presentation) == presentation.type = OtherType

\* dispatch of the CredentialHandler interface on the instance
canHandle(h, presentation) ==
    CASE h \in {"W3cHandler", "W3cHandlerDI"} -> W3cCanHandle(presentation)
      [] h \in {"MdlHandler", "MdlHandlerNoReaderAuth"} -> MdlCanHandle(presentation)
      [] h = "CustomHandler" -> CustomCanHandle(presentation)
      [] OTHER -> SdJwtCanHandle(presentation)

HandlerBody(h, presentation, env) ==
    CASE h \in {"W3cHandler", "W3cHandlerDI"} -> W3cVerifyBody(h, presentation, env)
      [] h \in {"MdlHandler", "MdlHandlerNoReaderAuth"} -> MdlVerifyBody(h, presentation)
      [] OTHER -> SdJwtVerifyBody(presentation)

HandlerVerify(h, presentation, env) ==
    CASE h \in {"W3cHandler", "W3cHandlerDI"} -> W3cVerify(h, presentation, env)
      [] h \in {"MdlHandler", "MdlHandlerNoReaderAuth"} -> MdlVerify(h, presentation)
      [] OTHER -> SdJwtVerify(presentation)

\* variant: the handler refuses a request that carries no challenge
HandlerVerifyChecksChallenge(h, presentation, request, env) ==
    IF IsSome(request) /\ Val(request).challenge = ""
    THEN Return(Rejected("Challenge missing"))
    ELSE HandlerVerify(h, presentation, env)

\* handler.verify(presentation, originalRequest) as verify calls it: the
\* three reference handlers declare the second parameter and never read it
HandlerVerifyRequest(h, presentation, request, env) ==
    HandlerVerify(h, presentation, env)

\* ---------------------------------------------------------------- policies
\* PolicyResult { compliant, errors?, details }: errors << >> is undefined,
\* details is reduced to the policy's display name.
MkPolicyResult(c, errs, name) == [compliant |-> c, errors |-> errs, details |-> name]

\* variant: only the claim named birthdate counts
BirthdateOnlyPolicy(verificationData) ==
    LET hasBirthdate == "birthdate" \in verificationData.claims
    IN Return(MkPolicyResult(hasBirthdate,
                  IF hasBirthdate THEN << >>
                  ELSE <<"Missing required birthdate claim">>,
                  "Age Verification"))

\* VerificationData { claims, credentialType, issuer?, holder? }
AgeVerificationPolicy(verificationData) ==
    LET hasBirthdate ==
            verificationData.claims \cap {"birthdate", "birth_date", "dateOfBirth"} # {}
    IN Return(MkPolicyResult(hasBirthdate,
                  IF hasBirthdate THEN << >>
                  ELSE <<"Missing required birthdate claim">>,
                  "Age Verification"))

RECURSIVE MissingClaims(_, _)
MissingClaims(required, claims) ==
    IF required = << >> THEN << >>
    ELSE (IF Head(required) \in claims THEN << >>
          ELSE <<"Missing required EUDI claim: " \o Head(required)>>)
         \o MissingClaims(Tail(required), claims)

EudiPolicy(verificationData) ==
    LET ctype == verificationData.credentialType
        typeErrors ==
            IF \E i \in DOMAIN ctype : ctype[i] = "EuropeanDigitalIdentityCredential"
            THEN << >>
            ELSE <<"Credential type is not EuropeanDigitalIdentityCredential.">>
        claimErrors ==
            MissingClaims(<<"family_name", "given_name", "birth_date">>,
                          verificationData.claims)
        issuer == verificationData.issuer
        issuerErrors ==
            IF /\ IsSome(issuer) /\ Val(issuer) # ""
               /\ Val(issuer) \notin {"did:example:eudi-authority", "did:eu:trusted-issuer"}
            THEN <<"Issuer '" \o Val(issuer) \o "' is not a trusted EUDI issuer.">>
            ELSE << >>
        errors == typeErrors \o claimErrors \o issuerErrors
    IN Return(MkPolicyResult(errors = << >>, errors, "EUDI Credential"))

\* a caller-supplied Policy whose execute throws
FaultyPolicy(verificationData) == Throw(MkError("policy backend unavailable"))

\* a Promise, fulfilled with v once it is awaited
MkPromise(v) == [promise |-> v]
IsPromise(x) == "promise" \in DOMAIN x

\* a caller-supplied CredentialPolicy whose execute is an async function: it
\* returns a Promise of the PolicyResult of the age check
AsyncAgePolicy(verificationData) ==
    Return(MkPromise(AgeVerificationPolicy(verificationData).value))

\* policy.execute(verificationData) on a value found under a registry key
execute(policy, verificationData) ==
    CASE policy = "AgeVerificationPolicy" -> AgeVerificationPolicy(verificationData)
      [] policy = "EudiPolicy" -> EudiPolicy(verificationData)
      [] policy = "AsyncAgePolicy" -> AsyncAgePolicy(verificationData)
      [] OTHER -> FaultyPolicy(verificationData)

\* options.policies of the examples, plus one caller-supplied policy
ExampleRegistry ==
    [n \in {"eudi", "age_verification", "custom"} |->
        CASE n = "eudi" -> "EudiPolicy"
          [] n = "age_verification" -> "AgeVerificationPolicy"
          [] OTHER -> "FaultyPolicy"]

\* names a request may ask for
PolicyNames == {"age_verification", "eudi", "custom", "unregistered", "toString"}

\* PresentationRequest { id, comment?, policies?, request_credentials, challenge }
MkRequest(ps) ==
    [id |-> "request-id", policies |-> ps, request_credentials |-> << >>,
     challenge |-> "challenge-string"]
Requests ==
    {Nothing} \cup
    { Some(MkRequest(ps)) :
        ps \in {Nothing} \cup { Some(l) : l \in SeqUpTo(PolicyNames, MaxRequested) } }

\* The calls made on the verifier: every presentation with a few requests,
\* and every request with a few presentations.
BasicRequests ==
    { Nothing, Some(MkRequest(Some(<<"eudi", "age_verification">>))) }
BasicPresentations ==
    { MkPres(TRUE, VpType, Some(<<c>>), Nothing, Nothing) :
        c \in { GoodCred, EudiCred,
                MkCred(<<"VerifiableCredential">>, "did:example:issuer",
                       PlainSubject, Some(Ed25519Proof)),
                MkCred(<<"VerifiableCredential">>, "did:example:issuer",
                       BornSubject, Some(JwsNoSigProof)) } }
Calls == (Presentations \X BasicRequests) \cup (BasicPresentations \X Requests)

\* ------------------------------------------------------------ VerifierImpl
\* VerificationResult { status, policyResults?, error? }
MkResult(st, pr, err) == [status |-> st, policyResults |-> pr, error |-> err]

NoResults == [n \in {} |-> MkPolicyResult(TRUE, << >>, "")]
Put(map, k, v) == [n \in DOMAIN map \cup {k} |-> IF n = k THEN v ELSE map[n]]

\* variant: the last accepting handler wins
findLast(hs, presentation, i) ==
    LET accepting == { k \in i..Len(hs) : canHandle(hs[k], presentation) } IN
    IF accepting = {} THEN Nothing
    ELSE Some(hs[CHOOSE k \in accepting : \A m \in accepting : m <= k])

\* variant: falls back to the first handler when none accepts
findOrFirst(hs, presentation, i) ==
    LET accepting == { k \in i..Len(hs) : canHandle(hs[k], presentation) } IN
    IF accepting = {} THEN (IF i <= Len(hs) THEN Some(hs[i]) ELSE Nothing)
    ELSE Some(hs[CHOOSE k \in accepting : \A m \in accepting : k <= m])

\* this.handlers.find(h => h.canHandle(presentation))
RECURSIVE find(_, _, _)
find(hs, presentation, i) ==
    IF i > Len(hs) THEN Nothing
    ELSE IF canHandle(hs[i], presentation) THEN Some(hs[i])
    ELSE find(hs, presentation, i + 1)

\* handler.constructor.name
ConstructorName(h) ==
    CASE h \in {"W3cHandler", "W3cHandlerDI"} -> "W3cHandler"
      [] h \in {"MdlHandler", "MdlHandlerNoReaderAuth"} -> "MdlHandler"
      [] h = "CustomHandler" -> "CustomHandler"
      [] OTHER -> "SdJwtHandler"

RECURSIVE JoinNames(_)
JoinNames(hs) ==
    IF hs = << >> THEN ""
    ELSE IF Len(hs) = 1 THEN ConstructorName(hs[1])
    ELSE ConstructorName(hs[1]) \o ", " \o JoinNames(Tail(hs))

NoHandlerMessage(hs) ==
    "No suitable handler found for the presentation format. Available handlers: "
    \o (IF JoinNames(hs) = "" THEN "None" ELSE JoinNames(hs))

\* originalRequest?.policies || []
RequestedPolicies(request) ==
    IF IsSome(request) /\ IsSome(Val(request).policies)
    THEN Val(Val(request).policies) ELSE << >>

MkVerificationData(hr) ==
    [claims |-> IF IsSome(hr.claims) THEN Val(hr.claims) ELSE {},
     credentialType |-> IF IsSome(hr.credentialType) /\ Val(hr.credentialType) # << >>
                        THEN Val(hr.credentialType) ELSE <<"Unknown">>,
     issuer |-> hr.issuer, holder |-> hr.holder]

\* one iteration of the policy loop: the completion of policy.execute, or
\* Nothing when the name is skipped
RunPolicy(registry, policyName, hr) ==
    LET policy == GetProp(registry, policyName) IN
    IF policy.kind = "undefined" THEN Nothing
    ELSE IF policy.kind = "inherited"
    THEN Some(Throw(MkError("policy.execute is not a function")))
    ELSE Some(execute(policy.val, MkVerificationData(hr)))

EmptyRun == [t |-> "return", exc |-> ThrownValue, policyResults |-> NoResults,
             calls |-> << >>]

\* variant: the loop breaks at the first non-compliant result
RECURSIVE RunPoliciesUntilFailure(_, _, _, _)
RunPoliciesUntilFailure(registry, names, hr, acc) ==
    IF names = << >> THEN acc
    ELSE LET c == RunPolicy(registry, Head(names), hr) IN
         IF ~IsSome(c) THEN RunPoliciesUntilFailure(registry, Tail(names), hr, acc)
         ELSE IF Val(c).t = "throw"
         THEN [acc EXCEPT !.t = "throw", !.exc = Val(c).exc,
                          !.calls = @ \o << <<Head(names), Nothing>> >>]
         ELSE LET next == [acc EXCEPT
                             !.policyResults = Put(@, Head(names), Val(c).value),
                             !.calls = @ \o << <<Head(names), Some(Val(c).value)>> >>]
              IN IF Val(c).value.compliant
                 THEN RunPoliciesUntilFailure(registry, Tail(names), hr, next)
                 ELSE next

\* the loop over requestedPolicies; acc carries policyResults and the
\* sequence of executions (name, what execute returned)
RECURSIVE RunPolicies(_, _, _, _)
RunPolicies(registry, names, hr, acc) ==
    IF names = << >> THEN acc
    ELSE LET c == RunPolicy(registry, Head(names), hr) IN
         IF ~IsSome(c) THEN RunPolicies(registry, Tail(names), hr, acc)
         ELSE IF Val(c).t = "throw"
         THEN [acc EXCEPT !.t = "throw", !.exc = Val(c).exc,
                          !.calls = @ \o << <<Head(names), Nothing>> >>]
         ELSE RunPolicies(registry, Tail(names), hr,
                  [acc EXCEPT !.policyResults = Put(@, Head(names), Val(c).value),
                              !.calls = @ \o << <<Head(names), Some(Val(c).value)>> >>])

\* r.compliant read as a condition: a Promise has no such property, and
\* undefined is falsy
Compliant(r) == IF IsPromise(r) THEN FALSE ELSE r.compliant

\* variant: some() instead of every()
SomePolicyCompliant(policyResults) ==
    \E n \in DOMAIN policyResults : Compliant(policyResults[n])

\* Object.values(policyResults).every(r => r.compliant)
AllPoliciesCompliant(policyResults) ==
    \A n \in DOMAIN policyResults : Compliant(policyResults[n])

\* variant: the handler's error is passed on without a default
HandlerErrorAsIs(hr) == IF IsSome(hr.error) THEN Val(hr.error) ELSE ""

\* handlerResult.error || 'Cryptographic verification failed'
HandlerError(hr) ==
    IF IsSome(hr.error) /\ Val(hr.error) # "" THEN Val(hr.error)
    ELSE "Cryptographic verification failed"

\* variant: an empty policyResults object is returned as it is
AlwaysPresent(policyResults) == Some(policyResults)

\* Object.keys(policyResults).length > 0 ? policyResults : undefined
PresentIfNonEmpty(policyResults) ==
    IF DOMAIN policyResults # {} THEN Some(policyResults) ELSE Nothing

\* steps 2 and 3 of verify for a handler result that is not rejected
Evaluate(registry, request, hr) ==
    LET run == RunPolicies(registry, RequestedPolicies(request), hr, EmptyRun) IN
    [run |-> run,
     outcome |->
        IF run.t = "throw" THEN Throw(run.exc)
        ELSE IF ~AllPoliciesCompliant(run.policyResults)
        THEN Return(MkResult("rejected", Some(run.policyResults),
                             Some("Policy compliance check failed")))
        ELSE Return(MkResult("verified", PresentIfNonEmpty(run.policyResults),
                             Nothing))]

\* variant: policies are evaluated whatever the handler reported
SettleWithoutShortCircuit(registry, request, hr) == Evaluate(registry, request, hr)

\* what the call settles to once the handler result is known
Settle(registry, request, hr) ==
    IF hr.status = "rejected"
    THEN [run |-> EmptyRun,
          outcome |-> Return(MkResult("rejected", Nothing, Some(HandlerError(hr))))]
    ELSE Evaluate(registry, request, hr)

\* ------------------------------------------------------------------- state
VARIABLES
    handlers,         \* this.handlers
    policies,         \* this.policies
    pc,               \* "Idle" | "HandlerVerifying" | "Resolved" | "Failed"
    presentation,     \* argument of the call in flight
    originalRequest,  \* argument of the call in flight
    handler,          \* the handler selected by find
    handlerResult,    \* what handler.verify resolved to
    thrown,           \* the exception raised inside the handler's try block
    calls,            \* policy executions of this call, in order
    result,           \* the VerificationResult the call resolved to
    failure,          \* the exception the call rejected with
    collaborators,    \* what the handler's collaborators do in the call in flight
    suiteCalls,       \* the crypto-suite functions the handler invoked, in order
    ops,              \* the addHandler/removeHandler calls made: the last one,
                      \* and per handler how often it was registered and removed
    heap,             \* the arrays and plain objects shared by reference
    verifiers,        \* verifier -> the references its two fields hold
    registered,       \* verifier -> the registries its constructor and its own
                      \* addHandler/removeHandler calls have built
    frames            \* the verify calls made so far, each with its locals

\* state of the specifications about shared references and overlapping calls
aux == <<collaborators, suiteCalls, ops, heap, verifiers, registered, frames>>

vars == <<handlers, policies, pc, presentation, originalRequest, handler,
          handlerResult, thrown, calls, result, failure, aux>>

NoOps == [last |-> Nothing, added |-> [h \in {} |-> 0], removed |-> [h \in {} |-> 0]]

NoAux ==
    /\ collaborators = NoEnv
    /\ suiteCalls = << >>
    /\ ops = NoOps
    /\ heap = [r \in {} |-> << >>]
    /\ verifiers = [v \in {} |-> << >>]
    /\ registered = [v \in {} |-> << >>]
    /\ frames = << >>

NoCall ==
    /\ presentation = Nothing /\ originalRequest = Nothing /\ handler = Nothing
    /\ handlerResult = Nothing /\ thrown = Nothing /\ calls = << >>
    /\ result = Nothing /\ failure = Nothing

\* new VerifierImpl({handlers, policies})
Init ==
    /\ handlers \in SeqUpTo(HandlerInstances, MaxHandlers)
    /\ policies = ExampleRegistry
    /\ pc = "Idle"
    /\ NoCall
    /\ NoAux

\* verify(presentation, originalRequest) up to the await of handler.verify
Dispatch(p, r) ==
    /\ pc = "Idle"
    /\ presentation' = Some(p)
    /\ originalRequest' = r
    /\ LET h == find(handlers, p, 1) IN
       IF ~IsSome(h)
       THEN /\ pc' = "Failed"
            /\ failure' = Some(MkError(NoHandlerMessage(handlers)))
            /\ handler' = Nothing
       ELSE /\ pc' = "HandlerVerifying"
            /\ handler' = h
            /\ failure' = Nothing
    /\ UNCHANGED <<handlers, policies, handlerResult, thrown, calls, result, aux>>

\* collaborators exist only on a handler constructed with them
EnvsOf(h) == IF HasCollaborators(h) THEN Envs ELSE {NoEnv}

\* handler.verify settles and verify runs to its end
HandlerSettles(env) ==
    /\ pc = "HandlerVerifying"
    /\ env \in EnvsOf(Val(handler))
    /\ LET h    == Val(handler)
           body == HandlerBody(h, Val(presentation), env)
           c    == HandlerVerify(h, Val(presentation), env)
       IN /\ thrown' = IF body.t = "throw" THEN Some(body.exc) ELSE Nothing
          /\ IF c.t = "throw"
             THEN /\ pc' = "Failed"
                  /\ failure' = Some(c.exc)
                  /\ UNCHANGED <<handlerResult, calls, result>>
             ELSE LET s == Settle(policies, originalRequest, c.value) IN
                  /\ handlerResult' = Some(c.value)
                  /\ calls' = s.run.calls
                  /\ IF s.outcome.t = "throw"
                     THEN /\ pc' = "Failed"
                          /\ failure' = Some(s.outcome.exc)
                          /\ UNCHANGED result
                     ELSE /\ pc' = "Resolved"
                          /\ result' = Some(s.outcome.value)
                          /\ UNCHANGED failure
    /\ UNCHANGED <<handlers, policies, presentation, originalRequest, handler, aux>>

\* the caller has received the settlement; the call's locals are gone
CallEnds ==
    /\ pc \in {"Resolved", "Failed"}
    /\ pc' = "Idle"
    /\ presentation' = Nothing /\ originalRequest' = Nothing /\ handler' = Nothing
    /\ handlerResult' = Nothing /\ thrown' = Nothing /\ calls' = << >>
    /\ result' = Nothing /\ failure' = Nothing
    /\ UNCHANGED <<handlers, policies, aux>>

addHandler(h) ==
    /\ pc = "Idle"
    /\ Len(handlers) < MaxHandlers
    /\ handlers' = Append(handlers, h)
    /\ UNCHANGED <<policies, pc, presentation, originalRequest, handler,
                   handlerResult, thrown, calls, result, failure, aux>>

\* variant: the last occurrence is the one found
lastIndexOf(hs, h, i) ==
    LET occ == { k \in i..Len(hs) : hs[k] = h } IN
    IF occ = {} THEN 0 ELSE CHOOSE k \in occ : \A m \in occ : m <= k

\* this.handlers.indexOf(handler)
RECURSIVE indexOf(_, _, _)
indexOf(hs, h, i) ==
    IF i > Len(hs) THEN 0
    ELSE IF hs[i] = h THEN i
    ELSE indexOf(hs, h, i + 1)

\* this.handlers.splice(index, 1)
splice(hs, index) == SubSeq(hs, 1, index - 1) \o SubSeq(hs, index + 1, Len(hs))

removeHandler(h) ==
    /\ pc = "Idle"
    /\ LET index == indexOf(handlers, h, 1) IN
       handlers' = IF index > 0 THEN splice(handlers, index) ELSE handlers
    /\ UNCHANGED <<policies, pc, presentation, originalRequest, handler,
                   handlerResult, thrown, calls, result, failure, aux>>

Next ==
    \/ \E c \in Calls : Dispatch(c[1], c[2])
    \/ \E env \in Envs : HandlerSettles(env)
    \/ CallEnds
    \/ \E h \in HandlerInstances : addHandler(h)
    \/ \E h \in HandlerInstances : removeHandler(h)

Spec == Init /\ [][Next]_vars

\* ------------------------------------------------- suspending policies
\* options.policies with a policy whose execute suspends
AsyncRegistry ==
    [n \in {"eudi", "age_verification", "async_age"} |->
        CASE n = "eudi" -> "EudiPolicy"
          [] n = "age_verification" -> "AgeVerificationPolicy"
          [] OTHER -> "AsyncAgePolicy"]

AsyncRequests ==
    { Some(MkRequest(Some(l))) :
        l \in SeqUpTo({"eudi", "age_verification", "async_age"}, MaxRequested) }

AsyncCalls == BasicPresentations \X AsyncRequests

AsyncInit ==
    /\ handlers \in SeqUpTo(HandlerInstances, MaxHandlers)
    /\ policies = AsyncRegistry
    /\ pc = "Idle"
    /\ NoCall
    /\ NoAux

AsyncNext ==
    \/ \E c \in AsyncCalls : Dispatch(c[1], c[2])
    \/ \E e \in Envs : HandlerSettles(e)
    \/ CallEnds

AsyncSpec == AsyncInit /\ [][AsyncNext]_vars

\* ------------------------------------------------ createCredentialVerifier
\* The object createCredentialVerifier(options) returns: its verify is
\* `async (vp, request) => ({ status: 'verified' })`; options is not read.
createCredentialVerifier(options) ==
    [verify |-> [c \in Calls |-> Return(MkResult("verified", Nothing, Nothing))]]

\* verifier.verify(vp, request) on the verifier the factory built from the
\* handlers and policies of this state
CredentialVerifierVerify(p, r) ==
    /\ pc = "Idle"
    /\ LET verifier == createCredentialVerifier(
                           [handlers |-> handlers, policies |-> policies])
       IN result' = Some(verifier.verify[<<p, r>>].value)
    /\ presentation' = Some(p)
    /\ originalRequest' = r
    /\ pc' = "Resolved"
    /\ UNCHANGED <<handlers, policies, handler, handlerResult, thrown, calls,
                   failure, aux>>

FactoryNext ==
    \/ \E c \in Calls : CredentialVerifierVerify(c[1], c[2])
    \/ CallEnds

FactorySpec == Init /\ [][FactoryNext]_vars

\* ------------------------------------------- shared references, calls in flight
\* The caller's options object holds its array and its map by reference, and
\* so do the verifiers built from it.  heap maps a reference to the array or
\* plain object it denotes.
OptionsHandlers == "options.handlers"
OptionsPolicies == "options.policies"
OwnHandlers(v)  == v \o ".handlers"    \* the [] literal the constructor evaluates
OwnPolicies(v)  == v \o ".policies"    \* the {} literal the constructor evaluates
Verifiers == {"verifier", "other"}

\* options.policies of the calls below
SmallRegistry ==
    [n \in {"eudi", "age_verification"} |->
        IF n = "eudi" THEN "EudiPolicy" ELSE "AgeVerificationPolicy"]
NoPolicies == [n \in {} |-> ""]

\* new VerifierImpl(options): this.handlers = options.handlers || [],
\* this.policies = options.policies || {}.  An array or an object is truthy
\* whatever it holds, so a given one is kept by reference.
VerifierImpl(v, options) ==
    [handlers |-> IF IsSome(options.handlers) THEN Val(options.handlers)
                  ELSE OwnHandlers(v),
     policies |-> IF IsSome(options.policies) THEN Val(options.policies)
                  ELSE OwnPolicies(v)]

HandlersOf(v) == heap[verifiers[v].handlers]
PoliciesOf(v) == heap[verifiers[v].policies]

\* const verifier = createVerifier(options), other = createVerifier(options),
\* for the options the caller may pass
Constructed(givenHandlers, givenPolicies) ==
    \E oh \in givenHandlers, op \in givenPolicies :
        LET options == [handlers |-> IF IsSome(oh) THEN Some(OptionsHandlers)
                                     ELSE Nothing,
                        policies |-> IF IsSome(op) THEN Some(OptionsPolicies)
                                     ELSE Nothing]
            built == [v \in Verifiers |-> VerifierImpl(v, options)]
            given == [handlers |-> IF IsSome(oh) THEN Val(oh) ELSE << >>,
                      policies |-> IF IsSome(op) THEN Val(op) ELSE NoPolicies]
            refs == (IF IsSome(oh) THEN {OptionsHandlers} ELSE {})
                    \cup (IF IsSome(op) THEN {OptionsPolicies} ELSE {})
                    \cup { built[v].handlers : v \in Verifiers }
                    \cup { built[v].policies : v \in Verifiers }
        IN /\ verifiers = built
           /\ registered = [v \in Verifiers |-> given]
           /\ heap = [r \in refs |->
                        IF r = OptionsHandlers THEN Val(oh)
                        ELSE IF r = OptionsPolicies THEN Val(op)
                        ELSE IF r \in { OwnHandlers(v) : v \in Verifiers } THEN << >>
                        ELSE NoPolicies]
    /\ frames = << >>
    /\ collaborators = NoEnv
    /\ suiteCalls = << >>
    /\ ops = NoOps
    /\ handlers = << >> /\ policies = NoPolicies
    /\ pc = "Idle"
    /\ NoCall

\* one invocation of verify: its parameters, its locals, and the registries
\* as they were when it was invoked
MkFrame(p, r, hs, ps, h) ==
    [presentation |-> p, originalRequest |-> r,
     handlersAtStart |-> hs, policiesAtStart |-> ps,
     pc |-> IF IsSome(h) THEN "HandlerVerifying" ELSE "Failed",
     handler |-> h, handlerCalls |-> << >>, env |-> Nothing,
     handlerResult |-> Nothing, calls |-> << >>,
     settlement |-> IF IsSome(h) THEN Nothing
                    ELSE Some(Throw(MkError(NoHandlerMessage(hs))))]

\* variants: the parameter is kept in a field of the verifier, which the
\* latest invocation overwrites
LatestPresentation(fs, i) == fs[Len(fs)].presentation
LatestRequest(fs, i) == fs[Len(fs)].originalRequest

\* the parameters of the i-th invocation
PresentationOf(fs, i) == fs[i].presentation
RequestOf(fs, i) == fs[i].originalRequest

\* variant: a rejected result makes verify fall back to the next handler that
\* accepts the presentation
HandlerCallsWithFallback(hs, h, p, e) ==
    LET later == { k \in 1..Len(hs) : hs[k] # h /\ canHandle(hs[k], p) } IN
    IF HandlerVerify(h, p, e).value.status = "rejected" /\ later # {}
    THEN <<h, hs[CHOOSE k \in later : \A m \in later : k <= m]>>
    ELSE <<h>>

\* the handler.verify calls of one invocation: `await handler.verify(
\* presentation)` on the handler found, outside any loop
HandlerCalls(hs, h, p, e) == <<h>>

\* verifier.verify(p, r) up to the await
Verify(p, r) ==
    /\ LET hs == HandlersOf("verifier") IN
       frames' = Append(frames,
                    MkFrame(p, r, hs, PoliciesOf("verifier"), find(hs, p, 1)))
    /\ UNCHANGED <<handlers, policies, pc, presentation, originalRequest, handler,
                   handlerResult, thrown, calls, result, failure,
                   collaborators, suiteCalls, ops, heap, verifiers, registered>>

\* the collaborators' behaviours the overlapping calls are run under
SmallEnvs ==
    { NoEnv,
      MkEnv(Ok, MkOutcome("throw", FALSE, Nothing, MkError("collaborator unavailable")),
            Ok) }

\* the i-th invocation resumes when its handler settles, and runs to its end
Resume(i, e) ==
    /\ i \in DOMAIN frames
    /\ frames[i].pc = "HandlerVerifying"
    /\ e \in EnvsOf(Val(frames[i].handler)) \cap SmallEnvs
    /\ LET f  == frames[i]
           p  == PresentationOf(frames, i)
           hc == HandlerCalls(HandlersOf("verifier"), Val(f.handler), p, e)
           c  == HandlerVerifyRequest(hc[Len(hc)], p, RequestOf(frames, i), e)
           s  == Settle(PoliciesOf("verifier"), RequestOf(frames, i), c.value)
       IN frames' = [frames EXCEPT ![i] =
              [f EXCEPT !.env = Some(e),
                        !.handlerCalls = hc,
                        !.handlerResult = IF c.t = "throw" THEN Nothing
                                          ELSE Some(c.value),
                        !.calls = IF c.t = "throw" THEN << >> ELSE s.run.calls,
                        !.settlement = IF c.t = "throw" THEN Some(Throw(c.exc))
                                       ELSE Some(s.outcome),
                        !.pc = IF c.t = "throw" \/ s.outcome.t = "throw"
                               THEN "Failed" ELSE "Resolved"]]
    /\ UNCHANGED <<handlers, policies, pc, presentation, originalRequest, handler,
                   handlerResult, thrown, calls, result, failure,
                   collaborators, suiteCalls, ops, heap, verifiers, registered>>

\* ------------------------------------------------------- overlapping calls
\* verifiers whose two handlers both accept some presentations, and one whose
\* handler has collaborators
IsolationLists ==
    { <<"W3cHandler", "SdJwtHandler">>, <<"SdJwtHandler", "W3cHandler">>,
      <<"W3cHandlerDI">> }

IsolationPresentations ==
    { MkPres(TRUE, VpType, Some(<<GoodCred>>), Nothing, Nothing),
      MkPres(TRUE, VpType, Nothing, Some(SdJwtProof), Nothing),
      MkPres(FALSE, OtherType, Nothing, Nothing, Nothing) }

IsolationRequests ==
    { Nothing, Some(MkRequest(Some(<<"age_verification">>))),
      Some(MkRequest(Some(<<"eudi", "age_verification">>))) }

\* a presentation that no handler accepts fails whatever the request is
IsolationCalls ==
    { c \in IsolationPresentations \X IsolationRequests :
        c[1].type = OtherType => c[2] = Nothing }

IsolationInit ==
    Constructed({ Some(l) : l \in IsolationLists }, {Some(SmallRegistry)})

\* calls on one verifier interleave at the await of handler.verify; the
\* registries are left alone
IsolationNext ==
    \/ \E c \in IsolationCalls : Len(frames) < MaxCalls /\ Verify(c[1], c[2])
    \/ \E i \in 1..MaxCalls, e \in SmallEnvs : Resume(i, e)

IsolationSpec == IsolationInit /\ [][IsolationNext]_vars

\* ------------------------------------------- registries changed during a call
MutationHandlers == {"W3cHandler", "SdJwtHandler"}

MutationInit ==
    Constructed({ Nothing, Some(<< >>), Some(<<"W3cHandler">>) },
                { Nothing, Some(SmallRegistry) })

\* the calls that name policies
MutationCalls == { c \in IsolationCalls : c[2] # Nothing }

\* everything but the heap, the registration history and the frames
Rest == <<handlers, policies, pc, presentation, originalRequest, handler,
          handlerResult, thrown, calls, result, failure, collaborators,
          suiteCalls, ops, verifiers>>

\* v.addHandler(h): this.handlers.push(handler)
addHandlerOn(v, h) ==
    /\ Len(HandlersOf(v)) < MaxHandlers
    /\ Len(registered[v].handlers) < MaxHandlers
    /\ heap' = [heap EXCEPT ![verifiers[v].handlers] = Append(@, h)]
    /\ registered' = [registered EXCEPT ![v].handlers = Append(@, h)]
    /\ UNCHANGED <<Rest, frames>>

\* v.removeHandler(h): indexOf, then splice when found
removeHandlerOn(v, h) ==
    /\ LET index == indexOf(HandlersOf(v), h, 1)
           known == indexOf(registered[v].handlers, h, 1)
       IN /\ index > 0
          /\ heap' = [heap EXCEPT ![verifiers[v].handlers] = splice(@, index)]
          /\ registered' = [registered EXCEPT ![v].handlers =
                               IF known > 0 THEN splice(@, known) ELSE @]
    /\ UNCHANGED <<Rest, frames>>

\* the caller goes on using the array it passed: options.handlers.push(h)
CallerPushes(h) ==
    /\ OptionsHandlers \in DOMAIN heap
    /\ Len(heap[OptionsHandlers]) < MaxHandlers
    /\ heap' = [heap EXCEPT ![OptionsHandlers] = Append(@, h)]
    /\ UNCHANGED <<Rest, registered, frames>>

\* the caller goes on using the object it passed: options.policies[n] = policy
CallerSetsPolicy(n, policy) ==
    /\ OptionsPolicies \in DOMAIN heap
    /\ GetProp(heap[OptionsPolicies], n).val # policy
    /\ heap' = [heap EXCEPT ![OptionsPolicies] = Put(@, n, policy)]
    /\ UNCHANGED <<Rest, registered, frames>>

\* delete options.policies[n]
CallerDeletesPolicy(n) ==
    /\ OptionsPolicies \in DOMAIN heap
    /\ n \in DOMAIN heap[OptionsPolicies]
    /\ heap' = [heap EXCEPT ![OptionsPolicies] =
                   [m \in DOMAIN @ \ {n} |-> @[m]]]
    /\ UNCHANGED <<Rest, registered, frames>>

\* the caller has received the settlement of the call
Returns ==
    /\ Len(frames) = 1
    /\ frames[1].pc # "HandlerVerifying"
    /\ frames' = << >>
    /\ UNCHANGED <<Rest, heap, registered>>

\* one call at a time; while it is suspended in handler.verify the registries
\* are changed through the verifiers and through the caller's references
MutationNext ==
    \/ \E c \in MutationCalls : frames = << >> /\ Verify(c[1], c[2])
    \/ \E e \in SmallEnvs : Resume(1, e)
    \/ Returns
    \/ \E v \in Verifiers, h \in MutationHandlers : addHandlerOn(v, h)
    \/ \E v \in Verifiers, h \in MutationHandlers : removeHandlerOn(v, h)
    \/ \E h \in MutationHandlers : CallerPushes(h)
    \/ CallerSetsPolicy("eudi", "AgeVerificationPolicy")
    \/ CallerDeletesPolicy("age_verification")

MutationSpec == MutationInit /\ [][MutationNext]_vars

\* ------------------------------------------------- W3cHandler on its own
\* presentations that carry further credentials after the first
LongVcLists ==
    {<< >>} \cup
    { <<c>> \o t : c \in FirstCreds, t \in SeqUpTo(TailCreds, MaxCreds) }

W3cCalls ==
    { <<h, MkPres(TRUE, VpType, Some(v), Nothing, Nothing), e>> :
        h \in {"W3cHandler", "W3cHandlerDI"}, v \in LongVcLists, e \in Envs }

HandlerInit ==
    /\ handlers = << >> /\ policies = NoPolicies
    /\ pc = "Idle"
    /\ NoCall
    /\ NoAux

\* await handler.verify(p) on a W3cHandler whose collaborators behave as e
W3cHandlerVerify(h, p, e) ==
    /\ pc = "Idle"
    /\ e \in EnvsOf(h)
    /\ handler' = Some(h)
    /\ presentation' = Some(p)
    /\ collaborators' = e
    /\ LET body == W3cVerifyBody(h, p, e) IN
       thrown' = IF body.t = "throw" THEN Some(body.exc) ELSE Nothing
    /\ handlerResult' = Some(W3cVerify(h, p, e).value)
    /\ pc' = "Resolved"
    /\ UNCHANGED <<handlers, policies, originalRequest, calls, result, failure,
                   suiteCalls, ops, heap, verifiers, registered, frames>>

\* the caller has received the handler's result
HandlerReturns ==
    /\ pc = "Resolved"
    /\ pc' = "Idle"
    /\ handler' = Nothing /\ presentation' = Nothing /\ collaborators' = NoEnv
    /\ thrown' = Nothing /\ handlerResult' = Nothing
    /\ suiteCalls' = << >>
    /\ UNCHANGED <<handlers, policies, originalRequest, calls, result, failure,
                   ops, heap, verifiers, registered, frames>>

HandlerNext ==
    \/ \E c \in W3cCalls : W3cHandlerVerify(c[1], c[2], c[3])
    \/ HandlerReturns

HandlerSpec == HandlerInit /\ [][HandlerNext]_vars

\* ------------------------------------------------- MdlHandler on its own
DeviceAuths == {Nothing} \cup { Some(MkAuth(k, s)) : k \in BOOLEAN, s \in BOOLEAN }
AllReaderAuths ==
    {Nothing} \cup { Some(MkReader(c, s)) : c \in BOOLEAN, s \in BOOLEAN }

MdlCalls ==
    { <<h, MkPres(FALSE, MdlType, Nothing, Nothing, d)>> :
        h \in {"MdlHandler", "MdlHandlerNoReaderAuth"},
        d \in {Nothing} \cup
              { Some(MkDR(da, ra, md)) :
                  da \in DeviceAuths, ra \in AllReaderAuths, md \in Mdocs } }

\* one invocation of a function of this.cryptoSuite
SuiteCall(fn, arg) == [fn |-> fn, arg |-> arg]

\* the functions of this.cryptoSuite that MdlHandler.verify awaits, in order
MdlSuiteCalls(h, p) ==
    LET deviceResponse == p.deviceResponse IN
    IF ~IsSome(deviceResponse) THEN << >>
    ELSE LET dr == Val(deviceResponse) IN
         IF ~IsSome(dr.deviceAuth) THEN << >>
         ELSE << SuiteCall("verifyDeviceAuth", Val(dr.deviceAuth)) >> \o
              (IF /\ verifyDeviceAuth(Val(dr.deviceAuth))
                  /\ IsSome(dr.readerAuth) /\ enableReaderAuth(h)
               THEN << SuiteCall("verifyReaderAuth", Val(dr.readerAuth)) >>
               ELSE << >>)

\* await handler.verify(p) on an MdlHandler
MdlHandlerVerify(h, p) ==
    /\ pc = "Idle"
    /\ handler' = Some(h)
    /\ presentation' = Some(p)
    /\ suiteCalls' = MdlSuiteCalls(h, p)
    /\ LET body == MdlVerifyBody(h, p) IN
       thrown' = IF body.t = "throw" THEN Some(body.exc) ELSE Nothing
    /\ handlerResult' = Some(MdlVerify(h, p).value)
    /\ pc' = "Resolved"
    /\ UNCHANGED <<handlers, policies, originalRequest, calls, result, failure,
                   collaborators, ops, heap, verifiers, registered, frames>>

MdlNext ==
    \/ \E c \in MdlCalls : MdlHandlerVerify(c[1], c[2])
    \/ HandlerReturns

MdlSpec == HandlerInit /\ [][MdlNext]_vars

\* ----------------------------------------------- SdJwtHandler on its own
\* credentials whose own proof is an SD-JWT proof
SdJwtCreds ==
    { MkCred(<<"VerifiableCredential">>, "did:example:issuer", BornSubject, Some(pr)) :
        pr \in {SdJwtProof, SdJwtEmpty} }

TopLevelProofs ==
    {Nothing} \cup { Some(pr) : pr \in {SdJwtProof, SdJwtEmpty, SdJwtNoKey, Ed25519Proof} }

NestedCredentials ==
    {Nothing} \cup { Some(v) : v \in VcLists \cup { <<c>> : c \in SdJwtCreds } }

SdJwtCalls ==
    { MkPres(TRUE, t, v, pr, Nothing) :
        t \in {VpType, OtherType}, v \in NestedCredentials, pr \in TopLevelProofs }

\* the invocations of this.cryptoSuite.verifyProof in SdJwtHandler.verify
SdJwtSuiteCalls(p) ==
    IF \/ ~IsSome(p.proof)
       \/ Val(p.proof).type # "SD-JWT"
       \/ Val(p.proof).sdJwt = "absent"
    THEN << >>
    ELSE << SuiteCall("verifyProof", Val(p.proof)) >>

\* await handler.verify(p) on an SdJwtHandler
SdJwtHandlerVerify(p) ==
    /\ pc = "Idle"
    /\ handler' = Some("SdJwtHandler")
    /\ presentation' = Some(p)
    /\ suiteCalls' = SdJwtSuiteCalls(p)
    /\ LET body == SdJwtVerifyBody(p) IN
       thrown' = IF body.t = "throw" THEN Some(body.exc) ELSE Nothing
    /\ handlerResult' = Some(SdJwtVerify(p).value)
    /\ pc' = "Resolved"
    /\ UNCHANGED <<handlers, policies, originalRequest, calls, result, failure,
                   collaborators, ops, heap, verifiers, registered, frames>>

SdJwtNext ==
    \/ \E p \in SdJwtCalls : SdJwtHandlerVerify(p)
    \/ HandlerReturns

SdJwtSpec == HandlerInit /\ [][SdJwtNext]_vars

\* --------------------------------------------- addHandler, removeHandler
\* handler instances the caller registers and removes
RegistryHandlers == {"W3cHandler", "SdJwtHandler", "MdlHandler"}

\* what a caller may pass as a handler: an instance, null, or an object that
\* lacks one of the two methods
HandlerArguments == RegistryHandlers \cup {"null", "VerifyOnly", "CanHandleOnly"}

\* the properties of x whose typeof is 'function'
Methods(x) ==
    CASE x = "null" -> {}
      [] x = "VerifyOnly" -> {"verify"}
      [] x = "CanHandleOnly" -> {"canHandle"}
      [] OTHER -> {"canHandle", "verify"}

\* the negation of the test at the head of addHandler
IsHandler(x) == "canHandle" \in Methods(x) /\ "verify" \in Methods(x)

\* variant: the handler is put in front
unshift(hs, x) == <<x>> \o hs

\* this.handlers.push(handler)
push(hs, x) == Append(hs, x)

Count(hs, h) == Cardinality({ i \in DOMAIN hs : hs[i] = h })
TotalAdded == ops.added["W3cHandler"] + ops.added["SdJwtHandler"] + ops.added["MdlHandler"]

OpRecord(op, arg, threw, before) ==
    [op |-> op, arg |-> arg, threw |-> threw, before |-> before]

RegistryPresentations ==
    { MkPres(TRUE, VpType, Some(<<GoodCred>>), Nothing, Nothing),
      MkPres(TRUE, VpType, Nothing, Some(SdJwtProof), Nothing),
      MkPres(FALSE, OtherType, Nothing, Some(SdJwtProof), Nothing),
      MkPres(FALSE, MdlType, Nothing, Nothing, Some(GoodDR)),
      MkPres(TRUE, VpType, Some(<<GoodCred>>), Some(SdJwtProof), Some(GoodDR)),
      MkPres(FALSE, OtherType, Nothing, Nothing, Nothing) }

\* new VerifierImpl({handlers, policies}) with handlers of its own
RegistryInit ==
    /\ handlers \in SeqUpTo(RegistryHandlers, MaxHandlers)
    /\ policies = ExampleRegistry
    /\ pc = "Idle"
    /\ NoCall
    /\ collaborators = NoEnv
    /\ suiteCalls = << >>
    /\ ops = [last |-> Nothing,
              added |-> [h \in RegistryHandlers |-> Count(handlers, h)],
              removed |-> [h \in RegistryHandlers |-> 0]]
    /\ heap = [r \in {} |-> << >>]
    /\ verifiers = [v \in {} |-> << >>]
    /\ registered = [v \in {} |-> << >>]
    /\ frames = << >>

\* verifier.addHandler(x), between two calls of verify
AddHandlerCall(x) ==
    /\ pc = "Idle"
    /\ TotalAdded < MaxOps
    /\ Len(handlers) <= MaxHandlers
    /\ IF ~IsHandler(x)
       THEN /\ handlers' = handlers
            /\ ops' = [ops EXCEPT !.last = Some(OpRecord("addHandler", x,
                          Some(MkError("Handler must implement canHandle() and verify() methods")),
                          handlers))]
       ELSE /\ handlers' = push(handlers, x)
            /\ ops' = [ops EXCEPT !.last = Some(OpRecord("addHandler", x, Nothing, handlers)),
                                  !.added[x] = @ + 1]
    /\ UNCHANGED <<policies, pc, presentation, originalRequest, handler,
                   handlerResult, thrown, calls, result, failure,
                   collaborators, suiteCalls, heap, verifiers, registered, frames>>

\* verifier.removeHandler(x), between two calls of verify
RemoveHandlerCall(x) ==
    /\ pc = "Idle"
    /\ LET index == indexOf(handlers, x, 1) IN
       /\ handlers' = IF index > 0 THEN splice(handlers, index) ELSE handlers
       /\ ops' = IF index > 0
                 THEN [ops EXCEPT !.last = Some(OpRecord("removeHandler", x, Nothing, handlers)),
                                  !.removed[x] = @ + 1]
                 ELSE [ops EXCEPT !.last = Some(OpRecord("removeHandler", x, Nothing, handlers))]
    /\ UNCHANGED <<policies, pc, presentation, originalRequest, handler,
                   handlerResult, thrown, calls, result, failure,
                   collaborators, suiteCalls, heap, verifiers, registered, frames>>

RegistryNext ==
    \/ \E p \in RegistryPresentations : Dispatch(p, Nothing)
    \/ HandlerSettles(NoEnv)
    \/ CallEnds
    \/ \E x \in HandlerArguments : AddHandlerCall(x)
    \/ \E x \in HandlerArguments : RemoveHandlerCall(x)

RegistrySpec == RegistryInit /\ [][RegistryNext]_vars

\* ------------------------------------------- a handler of the integrator
\* What CustomHandler.verify may resolve to.  The declared type allows
\* 'verified' and 'rejected'; nothing checks the value at run time, so a
\* JavaScript handler can resolve to any status or to none ("").
CustomStatuses == {"verified", "rejected", "pending", "error", ""}

CustomResults ==
    { [status |-> st, claims |-> c, credentialType |-> Some(<<"CustomType">>),
       issuer |-> Nothing, holder |-> Nothing, error |-> e] :
        st \in CustomStatuses,
        c \in {Nothing, Some(BornSubject)},
        e \in {Nothing, Some("handler failed")} }

CustomHandlers == {"W3cHandler", "CustomHandler"}

CustomCalls ==
    { MkPres(c, OtherType, Nothing, Nothing, Nothing) : c \in BOOLEAN }
    \X { Nothing, Some(MkRequest(Some(<<"age_verification">>))),
         Some(MkRequest(Some(<<"eudi">>))) }

CustomInit ==
    /\ handlers \in SeqUpTo(CustomHandlers, MaxHandlers)
    /\ policies = ExampleRegistry
    /\ pc = "Idle"
    /\ NoCall
    /\ NoAux

\* the custom handler's verify resolves to hr and verify runs to its end
CustomHandlerSettles(hr) ==
    /\ pc = "HandlerVerifying"
    /\ handler = Some("CustomHandler")
    /\ thrown' = Nothing
    /\ handlerResult' = Some(hr)
    /\ LET s == Settle(policies, originalRequest, hr) IN
       /\ calls' = s.run.calls
       /\ IF s.outcome.t = "throw"
          THEN /\ pc' = "Failed"
               /\ failure' = Some(s.outcome.exc)
               /\ UNCHANGED result
          ELSE /\ pc' = "Resolved"
               /\ result' = Some(s.outcome.value)
               /\ UNCHANGED failure
    /\ UNCHANGED <<handlers, policies, presentation, originalRequest, handler, aux>>

CustomNext ==
    \/ \E c \in CustomCalls : Dispatch(c[1], c[2])
    \/ \E hr \in CustomResults : CustomHandlerSettles(hr)
    \/ (handler # Some("CustomHandler") /\ HandlerSettles(NoEnv))
    \/ CallEnds

CustomSpec == CustomInit /\ [][CustomNext]_vars

\* ------------------------------------------- requests that differ in detail
\* PresentationRequest with every field spelled out
FullRequest(id, comment, ps, rc, ch) ==
    [id |-> id, comment |-> comment, policies |-> ps,
     request_credentials |-> rc, challenge |-> ch]

\* requests that differ in id and comment, in the challenge, or in the
\* credentials they require
DetailedRequests ==
    { Some(FullRequest(d[1], d[2], ps, d[3], d[4])) :
        d \in { <<"request-id", Nothing, << >>, "challenge-string">>,
                <<"request-2", Some("second attempt"), << >>, "challenge-string">>,
                <<"request-id", Nothing, << >>, "">>,
                <<"request-id", Nothing,
                  <<[type |-> "EuropeanDigitalIdentityCredential", required |-> TRUE]>>,
                  "challenge-string">> },
        ps \in { Nothing, Some(<<"age_verification">>) } }

RequestLists ==
    { <<"SdJwtHandler", "W3cHandler">>, <<"MdlHandler", "W3cHandlerDI">> }

RequestPresentations ==
    { MkPres(TRUE, VpType, Some(<<GoodCred>>), Nothing, Nothing),
      MkPres(TRUE, VpType, Some(<<GoodCred>>), Some(SdJwtProof), Nothing),
      MkPres(FALSE, MdlType, Nothing, Nothing, Some(GoodDR)) }

RequestInit ==
    Constructed({ Some(l) : l \in RequestLists }, {Some(SmallRegistry)})

\* the calls are compared in pairs, so one call fewer than MaxCalls is made
RequestNext ==
    \/ \E p \in RequestPresentations, r \in DetailedRequests :
           Len(frames) < MaxCalls - 1 /\ Verify(p, r)
    \/ \E i \in 1..MaxCalls, e \in SmallEnvs : Resume(i, e)

RequestSpec == RequestInit /\ [][RequestNext]_vars

\* ------------------------------------------------- an absent presentation
\* what a caller passes when it has no presentation
AbsentValues == {"null", "undefined"}

\* presentation.type, evaluated for the log line at the head of verify
ReadType(x) ==
    IF x \in AbsentValues
    THEN Throw(MkError("Cannot read properties of " \o x \o " (reading 'type')"))
    ELSE Return(x)

\* verify(x, r) for an absent x: the log line, then the !presentation test
VerifyAbsent(x, r) ==
    /\ pc = "Idle"
    /\ presentation' = Nothing
    /\ originalRequest' = r
    /\ pc' = "Failed"
    /\ LET c == ReadType(x) IN
       failure' = IF c.t = "throw" THEN Some(c.exc)
                  ELSE Some(MkError("No presentation provided for verification"))
    /\ UNCHANGED <<handlers, policies, handler, handlerResult, thrown, calls,
                   result, aux>>

AbsentNext ==
    \/ Next
    \/ \E x \in AbsentValues, r \in BasicRequests : VerifyAbsent(x, r)

AbsentSpec == Init /\ [][AbsentNext]_vars

\* ================================================================== claims
Accepting(p) == { i \in 1..Len(handlers) : canHandle(handlers[i], p) }
Registered(n) == n \in DOMAIN policies
HandlerVerified == IsSome(handlerResult) /\ Val(handlerResult).status = "verified"
HandlerRejected == IsSome(handlerResult) /\ Val(handlerResult).status = "rejected"
CallNames == [i \in DOMAIN calls |-> calls[i][1]]
Returned(i) == IsSome(calls[i][2])

\* C1: the handler a call runs is the first handler, in registration order,
\* whose canHandle accepts the presentation; a later handler that would also
\* accept it is not the one selected.
C1_FirstAcceptingHandlerSelected ==
    IsSome(handler) =>
        \E i \in Accepting(Val(presentation)) :
            /\ handlers[i] = Val(handler)
            /\ \A j \in 1..(i - 1) : ~canHandle(handlers[j], Val(presentation))

C1_Witness ==
    /\ pc = "HandlerVerifying"
    /\ Accepting(Val(presentation)) = {1, 2}
    /\ ConstructorName(handlers[1]) # ConstructorName(handlers[2])
    /\ Val(handler) = handlers[1]

\* C2: a call that resolves is 'verified' exactly when the handler returned
\* verified and every policy execution of the call returned compliant = true;
\* every other resolved call is 'rejected'.
C2_VerifiedIffHandlerAndPolicies ==
    pc = "Resolved" =>
        /\ Val(result).status \in {"verified", "rejected"}
        /\ Val(result).status = "verified" <=>
              /\ HandlerVerified
              /\ \A i \in DOMAIN calls : Returned(i) /\ Val(calls[i][2]).compliant

C2_Witness ==
    /\ pc = "Resolved"
    /\ HandlerVerified
    /\ Len(calls) = 2
    /\ Val(result).status = "verified"

\* C3: when no registered handler accepts the presentation (the list may be
\* empty), the call fails with an error, there is no VerificationResult, and
\* neither a handler's verify nor a policy has been invoked.
C3_NoHandlerFailsWithoutResult ==
    (IsSome(presentation) /\ Accepting(Val(presentation)) = {}) =>
        /\ pc = "Failed"
        /\ IsSome(failure) /\ Val(failure).isError
        /\ Val(failure).message = NoHandlerMessage(handlers)
        /\ result = Nothing
        /\ handler = Nothing /\ handlerResult = Nothing
        /\ calls = << >>

C3_Witness ==
    /\ pc = "Failed"
    /\ Len(handlers) = 2
    /\ Accepting(Val(presentation)) = {}
    /\ IsSome(originalRequest) /\ RequestedPolicies(originalRequest) # << >>

\* C4: when the selected handler reports rejected, the call resolves to
\* 'rejected' with no policyResults and no policy has been executed, even if
\* the request names registered policies.
C4_RejectedHandlerShortCircuits ==
    HandlerRejected =>
        /\ pc = "Resolved"
        /\ Val(result).status = "rejected"
        /\ Val(result).policyResults = Nothing
        /\ calls = << >>

C4_Witness ==
    /\ HandlerRejected
    /\ pc = "Resolved"
    /\ \E i \in DOMAIN RequestedPolicies(originalRequest) :
           Registered(RequestedPolicies(originalRequest)[i])

\* C5 (as claimed): a policy whose execute throws is recorded under its name as
\* {compliant: false, errors: [message]}, and the call resolves to 'rejected'
\* instead of failing.
C5_PolicyExceptionRecorded ==
    \A i \in DOMAIN calls :
        (Registered(calls[i][1]) /\ ~Returned(i)) =>
            /\ pc = "Resolved"
            /\ Val(result).status = "rejected"
            /\ IsSome(Val(result).policyResults)
            /\ calls[i][1] \in DOMAIN Val(Val(result).policyResults)
            /\ ~Val(Val(result).policyResults)[calls[i][1]].compliant
            /\ Val(Val(result).policyResults)[calls[i][1]].errors
                   = <<"policy backend unavailable">>

\* the request with the unregistered names removed from its policies
OnlyRegistered(request) ==
    IF IsSome(request) /\ IsSome(Val(request).policies)
    THEN Some([Val(request) EXCEPT
                 !.policies = Some(SelectSeq(Val(Val(request).policies), Registered))])
    ELSE request

Settlement ==
    IF pc = "Resolved" THEN Return(Val(result)) ELSE Throw(Val(failure))

\* C6 (as claimed): with a verified handler result, requested names that are
\* not in the policy registry are skipped: they are absent from policyResults
\* and the call settles as it would had the request named only the registered
\* ones (so 'verified' with no policyResults when all of them are missing).
C6_UnregisteredNamesSkipped ==
    HandlerVerified =>
        /\ Settlement = Settle(policies, OnlyRegistered(originalRequest),
                               Val(handlerResult)).outcome
        /\ \A i \in DOMAIN calls : Registered(calls[i][1])

\* C7: with a verified handler result and no requested policy (no request, no
\* policies property, or an empty list) the call resolves to 'verified' with
\* neither policyResults nor error.
C7_NoPoliciesRequestedVerified ==
    (HandlerVerified /\ RequestedPolicies(originalRequest) = << >>) =>
        /\ pc = "Resolved"
        /\ result = Some(MkResult("verified", Nothing, Nothing))
        /\ calls = << >>

C7_Witness ==
    /\ HandlerVerified
    /\ originalRequest = Some(MkRequest(Some(<< >>)))
    /\ pc = "Resolved"

\* C8: a call that resolves after a verified handler result has executed every
\* requested policy that is registered, in request order, also past a
\* non-compliant one; policyResults maps exactly those names to what their
\* policies returned, and is carried in full when the status is 'rejected'.
C8_AllRegisteredPoliciesExecuted ==
    (pc = "Resolved" /\ HandlerVerified) =>
        LET wanted == SelectSeq(RequestedPolicies(originalRequest), Registered)
            data   == MkVerificationData(Val(handlerResult))
            carried == IF IsSome(Val(result).policyResults)
                       THEN Val(Val(result).policyResults) ELSE NoResults
        IN /\ CallNames = wanted
           /\ \A i \in DOMAIN calls :
                  calls[i][2] = Some(execute(policies[calls[i][1]], data).value)
           /\ DOMAIN carried = { wanted[i] : i \in DOMAIN wanted }
           /\ \A n \in DOMAIN carried :
                  carried[n] = execute(policies[n], data).value
           /\ (wanted # << >>) => IsSome(Val(result).policyResults)

C8_Witness ==
    /\ pc = "Resolved" /\ HandlerVerified
    /\ Len(calls) = 2
    /\ ~Val(calls[1][2]).compliant /\ Val(calls[2][2]).compliant
    /\ Val(result).status = "rejected"
    /\ DOMAIN Val(Val(result).policyResults) = {calls[1][1], calls[2][1]}

UnknownErrorMessage(h) ==
    CASE ConstructorName(h) = "W3cHandler" -> "Unknown error during W3C verification"
      [] ConstructorName(h) = "MdlHandler" -> "Unknown error during mDL verification"
      [] OTHER -> "Unknown error during SD-JWT verification"

C10_ResultWellFormed ==
    pc = "Resolved" =>
        /\ Val(result).status = "rejected" =>
              (IsSome(Val(result).error) /\ Val(Val(result).error) # "")
        /\ Val(result).status = "verified" => Val(result).error = Nothing
        /\ IsSome(Val(result).policyResults) <=> calls # << >>

C10_Witness ==
    /\ pc = "Resolved"
    /\ thrown = Some(MkError(""))
    /\ Val(result).error = Some("Cryptographic verification failed")

\* what VerifierImpl.verify settles to for these registries and this call
Outcomes(hs, registry, p, r) ==
    LET h == find(hs, p, 1) IN
    IF ~IsSome(h) THEN { Throw(MkError(NoHandlerMessage(hs))) }
    ELSE { Settle(registry, r, HandlerVerify(Val(h), p, e).value).outcome :
             e \in EnvsOf(Val(h)) }

\* C11 (as claimed): the verifier createCredentialVerifier({handlers, policies})
\* returns uses the supplied handlers and policies: its verify resolves to
\* 'verified' only when a supplied handler accepts and verifies the
\* presentation and the requested policies are compliant, and to 'rejected'
\* otherwise.
C11_FactoryVerifierUsesOptions ==
    pc = "Resolved" =>
        /\ Val(result).status \in {"verified", "rejected"}
        /\ Val(result).status = "verified" =>
              \E o \in Outcomes(handlers, policies, Val(presentation), originalRequest) :
                  o.t = "return" /\ o.value.status = "verified"

\* the PolicyResult a policy delivers: the value a Promise is fulfilled with,
\* or the value returned directly
Delivered(r) == IF IsPromise(r) THEN r.promise ELSE r

\* C12 (as claimed): a policy whose execute suspends is supported: the verdict
\* uses the compliant value each policy eventually delivers, so when the
\* handler verified and every executed policy delivers compliant = true the
\* call resolves to 'verified', and a delivered compliant = false gives
\* 'rejected'.
C12_SuspendingPolicySupported ==
    (pc = "Resolved" /\ HandlerVerified) =>
        (Val(result).status = "verified" <=>
            \A i \in DOMAIN calls :
                Returned(i) /\ Delivered(Val(calls[i][2])).compliant)

Settled(f) == f.pc \in {"Resolved", "Failed"}
FrameAccepting(f) ==
    { k \in 1..Len(f.handlersAtStart) : canHandle(f.handlersAtStart[k], f.presentation) }
FrameCallNames(f) == [k \in DOMAIN f.calls |-> f.calls[k][1]]
RegisteredAtStart(f, n) == GetProp(f.policiesAtStart, n).kind # "undefined"

\* C15: within one verify call exactly one handler's verify is invoked, once:
\* that of the earliest registered handler accepting the presentation.  No
\* policy runs before it has completed; when it rejects, no other accepting
\* handler is tried and no policy runs; every requested registered policy is
\* executed once per request entry, also a non-compliant one.
C15_OneHandlerCallNoRetry ==
    \A i \in DOMAIN frames :
        LET f == frames[i]
            wanted == SelectSeq(RequestedPolicies(f.originalRequest),
                                LAMBDA n : RegisteredAtStart(f, n))
        IN /\ f.pc = "HandlerVerifying" =>
                 (f.handlerResult = Nothing /\ f.calls = << >>)
           /\ (Settled(f) /\ FrameAccepting(f) = {}) =>
                 (f.handlerCalls = << >> /\ f.calls = << >>)
           /\ (Settled(f) /\ FrameAccepting(f) # {}) =>
                 /\ f.handlerCalls =
                       << f.handlersAtStart[CHOOSE k \in FrameAccepting(f) :
                              \A m \in FrameAccepting(f) : k <= m] >>
                 /\ IsSome(f.handlerResult)
                 /\ f.handlerResult =
                       Some(HandlerVerify(f.handlerCalls[1], f.presentation,
                                          Val(f.env)).value)
                 /\ Val(f.handlerResult).status = "rejected" => f.calls = << >>
                 /\ Val(f.handlerResult).status = "verified" =>
                       FrameCallNames(f) = wanted

C15_Witness ==
    \E i \in DOMAIN frames :
        /\ frames[i].pc = "Resolved"
        /\ FrameAccepting(frames[i]) = {1, 2}
        /\ Val(frames[i].handlerResult).status = "rejected"
        /\ HandlerVerify(frames[i].handlersAtStart[2], frames[i].presentation,
                         NoEnv).value.status = "verified"
        /\ frames[i].handlerCalls = << frames[i].handlersAtStart[1] >>

Alone(f) ==
    LET h == find(HandlersOf("verifier"), f.presentation, 1) IN
    IF ~IsSome(h) THEN Throw(MkError(NoHandlerMessage(HandlersOf("verifier"))))
    ELSE Settle(PoliciesOf("verifier"), f.originalRequest,
                HandlerVerify(Val(h), f.presentation, Val(f.env)).value).outcome

C13_CallSeesRegistriesAtStart ==
    \A i \in DOMAIN frames :
        LET f == frames[i] IN
        (Settled(f) /\ FrameAccepting(f) # {}) =>
            /\ f.handlerCalls = << Val(find(f.handlersAtStart, f.presentation, 1)) >>
            /\ f.settlement =
                  Some(Settle(f.policiesAtStart, f.originalRequest,
                              HandlerVerify(f.handlerCalls[1], f.presentation,
                                            Val(f.env)).value).outcome)

\* C14 (as claimed): a verifier's handler registry is what its constructor and
\* its own addHandler/removeHandler calls have made it, and its policy
\* registry is the one it was constructed with: changes the caller makes
\* later to the array or the map it passed, and addHandler on another
\* verifier built from the same options, do not reach it.
C14_RegistriesChangeOnlyThroughVerifier ==
    \A v \in DOMAIN verifiers :
        /\ HandlersOf(v) = registered[v].handlers
        /\ PoliciesOf(v) = registered[v].policies

\* C18 (as claimed): when W3cHandler.verify comes to the proof of the first
\* credential, its algorithm tag must be present and be a key of the
\* handler's registry of proof verifiers; otherwise the result is rejected
\* with error "Unsupported proof type: <tag>", and no proof verifier has been
\* invoked (nothing was thrown on the way).
C18_UnsupportedProofTypeRejected ==
    ( /\ IsSome(handlerResult)
      /\ Val(handler) = "W3cHandler"
      /\ IsSome(FirstCredential(Val(presentation)))
      /\ IsSome(Val(FirstCredential(Val(presentation))).proof) ) =>
        LET tag == Val(Val(FirstCredential(Val(presentation))).proof).type IN
        tag \notin DOMAIN cryptoSuites =>
            /\ handlerResult = Some(Rejected("Unsupported proof type: " \o tag))
            /\ thrown = Nothing

\* the presentation with every credential after the first removed
FirstOnly(p) ==
    IF IsSome(p.verifiableCredential) /\ Len(Val(p.verifiableCredential)) > 1
    THEN [p EXCEPT !.verifiableCredential = Some(<<Val(p.verifiableCredential)[1]>>)]
    ELSE p

MdlFirstFailure(h, p, noMdoc) ==
    LET dr == p.deviceResponse IN
    IF ~IsSome(dr) THEN Some("No device response")
    ELSE IF ~IsSome(Val(dr).deviceAuth) THEN Some("No device authentication")
    ELSE IF ~(Val(Val(dr).deviceAuth).deviceKey /\ Val(Val(dr).deviceAuth).authSignature)
    THEN Some("Device authentication failed")
    ELSE IF /\ IsSome(Val(dr).readerAuth) /\ h # "MdlHandlerNoReaderAuth"
            /\ ~(Val(Val(dr).readerAuth).readerCertificate
                 /\ Val(Val(dr).readerAuth).readerSignature)
    THEN Some("Reader authentication failed")
    ELSE IF ~IsSome(Val(dr).mdoc) THEN Some(noMdoc)
    ELSE IF \/ ~IsSome(Val(Val(dr).mdoc).dataElements)
            \/ DOMAIN Val(Val(Val(dr).mdoc).dataElements) = {}
    THEN Some("No data elements")
    ELSE Nothing

MdlSettled ==
    /\ IsSome(handlerResult) /\ IsSome(handler)
    /\ ConstructorName(Val(handler)) = "MdlHandler"

MdlRejectsWith(noMdoc) ==
    MdlSettled =>
        LET failure1 == MdlFirstFailure(Val(handler), Val(presentation), noMdoc) IN
        /\ IsSome(failure1) =>
              /\ handlerResult = Some(Rejected(Val(failure1)))
              /\ pc = "Resolved"
              /\ Val(result) = MkResult("rejected", Nothing, failure1)
              /\ calls = << >>
        /\ ~IsSome(failure1) => Val(handlerResult).status = "verified"

\* C20 (as claimed): MdlHandler.verify rejects with the message of the first
\* failing sub-check, one of the five: no device response, no device
\* authentication, device authentication failed, reader authentication
\* failed, no data elements; the call is then 'rejected' with that error and
\* no policy is executed.
C20_MdlFiveMessages == MdlRejectsWith("No data elements")

\* C20 (amended): as above with six messages: a device response that passed
\* the authentication checks but carries no mdoc is rejected with
\* "No mDoc data"; "No data elements" is the message for an mdoc without
\* data elements.
C20_MdlSixMessages == MdlRejectsWith("No mDoc data")

C20_Witness ==
    /\ MdlSettled /\ pc = "Resolved"
    /\ Val(handlerResult).error = Some("Reader authentication failed")
    /\ Val(Val(presentation).deviceResponse).mdoc = Nothing
    /\ RequestedPolicies(originalRequest) # << >>
    /\ calls = << >>

ReaderAuthInvoked ==
    \E i \in DOMAIN suiteCalls : suiteCalls[i].fn = "verifyReaderAuth"

WithReaderAuth(p, ra) ==
    [p EXCEPT !.deviceResponse = Some([Val(@) EXCEPT !.readerAuth = ra])]

\* C21: MdlHandler.verify invokes the reader-authentication verifier exactly
\* when the device authentication has succeeded, a readerAuth object is present
\* and the handler was configured with reader authentication enabled, and it
\* invokes it after the device-authentication verifier; on a handler
\* configured with enableReaderAuth: false the result is the same whatever
\* readerAuth the device response carries, and a valid device authentication
\* with data elements gives verified.
C21_ReaderAuthOnlyIfPresentAndEnabled ==
    (pc = "Resolved" /\ IsSome(handler)) =>
        LET h  == Val(handler)
            p  == Val(presentation)
            dr == p.deviceResponse
            disabled == h = "MdlHandlerNoReaderAuth"
            deviceOk ==
                /\ IsSome(dr) /\ IsSome(Val(dr).deviceAuth)
                /\ Val(Val(dr).deviceAuth).deviceKey
                /\ Val(Val(dr).deviceAuth).authSignature
            hasElements ==
                /\ IsSome(dr) /\ IsSome(Val(dr).mdoc)
                /\ IsSome(Val(Val(dr).mdoc).dataElements)
                /\ DOMAIN Val(Val(Val(dr).mdoc).dataElements) # {}
        IN /\ ReaderAuthInvoked <=>
                 (deviceOk /\ IsSome(Val(dr).readerAuth) /\ ~disabled)
           /\ \A i \in DOMAIN suiteCalls :
                 suiteCalls[i].fn = "verifyReaderAuth" =>
                     \E j \in 1..(i - 1) : suiteCalls[j].fn = "verifyDeviceAuth"
           /\ (disabled /\ IsSome(dr)) =>
                 \A ra \in AllReaderAuths :
                     MdlVerify(h, WithReaderAuth(p, ra)).value = Val(handlerResult)
           /\ (disabled /\ deviceOk /\ hasElements) =>
                 Val(handlerResult).status = "verified"

C21_Witness ==
    /\ pc = "Resolved"
    /\ handler = Some("MdlHandlerNoReaderAuth")
    /\ IsSome(Val(presentation).deviceResponse)
    /\ Val(Val(presentation).deviceResponse).readerAuth = Some(MkReader(TRUE, FALSE))
    /\ suiteCalls = << SuiteCall("verifyDeviceAuth", MkAuth(TRUE, TRUE)) >>
    /\ Val(handlerResult).status = "verified"

\* C22 (as claimed): MdlHandler.verify returns verified only if the device
\* response carries at least one data-element group that is not empty; a
\* device response that passes the authentication checks and whose mdoc has no
\* group, or only empty groups, is rejected with "No data elements".
C22_VerifiedNeedsNonEmptyGroup ==
    (pc = "Resolved" /\ IsSome(handler) /\ ConstructorName(Val(handler)) = "MdlHandler") =>
        LET dr == Val(presentation).deviceResponse
            groups ==
                IF /\ IsSome(dr) /\ IsSome(Val(dr).mdoc)
                   /\ IsSome(Val(Val(dr).mdoc).dataElements)
                THEN Val(Val(Val(dr).mdoc).dataElements) ELSE NoGroups
            someNonEmpty == \E g \in DOMAIN groups : groups[g] # {}
        IN /\ Val(handlerResult).status = "verified" => someNonEmpty
           /\ (/\ ~someNonEmpty
               /\ MdlFirstFailure(Val(handler), Val(presentation), "No mDoc data")
                      \in {Nothing, Some("No data elements")})
                  => Val(handlerResult) = Rejected("No data elements")

HasTopLevelSdJwtProof(p) ==
    /\ IsSome(p.proof)
    /\ Val(p.proof).type = "SD-JWT"
    /\ Val(p.proof).sdJwt # "absent"

\* C23: SdJwtHandler.verify verifies exactly one proof, the presentation's own
\* top-level SD-JWT proof, and nothing when there is none; the status is the
\* same whatever credentials (with whatever proofs of their own) the
\* presentation carries, and a presentation without a top-level SD-JWT proof
\* is rejected.
C23_OnlyTopLevelProofVerified ==
    (pc = "Resolved" /\ handler = Some("SdJwtHandler")) =>
        LET p == Val(presentation) IN
        /\ suiteCalls = IF HasTopLevelSdJwtProof(p)
                        THEN << SuiteCall("verifyProof", Val(p.proof)) >> ELSE << >>
        /\ \A v \in NestedCredentials :
               SdJwtVerify([p EXCEPT !.verifiableCredential = v]).value.status
                   = Val(handlerResult).status
        /\ ~HasTopLevelSdJwtProof(p) =>
               Val(handlerResult) = Rejected("No SD-JWT proof found")
        /\ Val(handlerResult).status = "verified" =>
               (HasTopLevelSdJwtProof(p) /\ Val(p.proof).sdJwt = "token")

C23_Witness ==
    /\ pc = "Resolved" /\ handler = Some("SdJwtHandler")
    /\ Val(presentation).proof = Some(SdJwtProof)
    /\ IsSome(Val(presentation).verifiableCredential)
    /\ Len(Val(Val(presentation).verifiableCredential)) > 0
    /\ Val(Val(presentation).verifiableCredential)[1].proof = Some(JwsNoSigProof)
    /\ Val(handlerResult).status = "verified"
    /\ Len(suiteCalls) = 1

MissingBirthdate == <<"Missing required birthdate claim">>

\* C24: with a verified handler result, the policy registered as
\* 'age_verification' returns compliant exactly when the claims hold one of
\* birthdate, birth_date, dateOfBirth, and otherwise {compliant: false,
\* errors: ["Missing required birthdate claim"]}; a resolved call that
\* requested it without such a claim is 'rejected' and carries that entry in
\* policyResults, and a request naming only this policy always resolves.
C24_MissingBirthdateRejected ==
    HandlerVerified =>
        LET claims == MkVerificationData(Val(handlerResult)).claims
            born == claims \cap {"birthdate", "birth_date", "dateOfBirth"} # {}
            names == RequestedPolicies(originalRequest)
            requested == \E i \in DOMAIN names : names[i] = "age_verification"
        IN /\ \A i \in DOMAIN calls :
                  calls[i][1] = "age_verification" =>
                      /\ Returned(i)
                      /\ Val(calls[i][2]).compliant = born
                      /\ Val(calls[i][2]).errors =
                            IF born THEN << >> ELSE MissingBirthdate
           /\ (pc = "Resolved" /\ requested /\ ~born) =>
                  /\ Val(result).status = "rejected"
                  /\ IsSome(Val(result).policyResults)
                  /\ "age_verification" \in DOMAIN Val(Val(result).policyResults)
                  /\ ~Val(Val(result).policyResults)["age_verification"].compliant
                  /\ Val(Val(result).policyResults)["age_verification"].errors
                         = MissingBirthdate
           /\ names = <<"age_verification">> =>
                  /\ pc = "Resolved"
                  /\ Val(result).status = IF born THEN "verified" ELSE "rejected"
                  /\ DOMAIN Val(Val(result).policyResults) = {"age_verification"}

C24_Witness ==
    /\ pc = "Resolved" /\ HandlerVerified
    /\ RequestedPolicies(originalRequest) = <<"age_verification">>
    /\ "birth_date" \notin Val(Val(handlerResult).claims)
    /\ Val(result).status = "rejected"
    /\ Val(Val(result).policyResults)["age_verification"].errors = MissingBirthdate

LastOp == Val(ops.last)
LastWas(op) == IsSome(ops.last) /\ LastOp.op = op

\* C25: addHandler(h) appends h after the handlers registered before, so a
\* presentation that one of those accepts still goes to the first of them
\* that does, and h is selected only for presentations none of them accepts;
\* an h that is null or lacks a canHandle or a verify function makes
\* addHandler throw and leaves the list as it was.
C25_AddHandlerAppends ==
    LastWas("addHandler") =>
        LET x == LastOp.arg
            before == LastOp.before
            valid == {"canHandle", "verify"} \subseteq Methods(x)
        IN /\ valid =>
                 /\ LastOp.threw = Nothing
                 /\ Len(handlers) = Len(before) + 1
                 /\ \A i \in DOMAIN before : handlers[i] = before[i]
                 /\ handlers[Len(handlers)] = x
           /\ ~valid =>
                 /\ LastOp.threw = Some(MkError(
                        "Handler must implement canHandle() and verify() methods"))
                 /\ handlers = before
           /\ (valid /\ IsSome(presentation)) =>
                 LET earlier == { i \in DOMAIN before :
                                     canHandle(before[i], Val(presentation)) }
                 IN IF earlier # {}
                    THEN handler = Some(before[CHOOSE i \in earlier :
                                                  \A j \in earlier : i <= j])
                    ELSE handler = IF canHandle(x, Val(presentation))
                                   THEN Some(x) ELSE Nothing

C25_Witness ==
    /\ LastWas("addHandler") /\ LastOp.threw = Nothing
    /\ Len(LastOp.before) = 2
    /\ \A i \in DOMAIN LastOp.before : LastOp.before[i] # LastOp.arg
    /\ pc = "HandlerVerifying"
    /\ handler = Some(LastOp.arg)

C27_FailsClosedOnHandlerStatus ==
    (IsSome(handlerResult) /\ Val(handlerResult).status # "verified") =>
        ~(pc = "Resolved" /\ Val(result).status = "verified")

\* C28: for a fixed presentation and fixed registries, two requests with the
\* same policies list settle identically, whatever their id, comment,
\* challenge and request_credentials are: same handler result, same status,
\* same policyResults, same error.
C28_OnlyPoliciesOfRequestMatter ==
    \A i, j \in DOMAIN frames :
        ( /\ Settled(frames[i]) /\ Settled(frames[j])
          /\ frames[i].presentation = frames[j].presentation
          /\ IsSome(frames[i].originalRequest) /\ IsSome(frames[j].originalRequest)
          /\ Val(frames[i].originalRequest).policies
                 = Val(frames[j].originalRequest).policies
          /\ frames[i].env = frames[j].env
          /\ frames[i].handlersAtStart = frames[j].handlersAtStart
          /\ frames[i].policiesAtStart = frames[j].policiesAtStart )
        => /\ frames[i].settlement = frames[j].settlement
           /\ frames[i].handlerResult = frames[j].handlerResult
           /\ frames[i].calls = frames[j].calls

C28_Witness ==
    /\ Len(frames) = 2
    /\ frames[1].pc = "Resolved" /\ frames[2].pc = "Resolved"
    /\ frames[1].presentation = frames[2].presentation
    /\ Val(frames[1].originalRequest).policies = Some(<<"age_verification">>)
    /\ Val(frames[2].originalRequest).policies = Some(<<"age_verification">>)
    /\ Val(frames[1].originalRequest).challenge = "challenge-string"
    /\ Val(frames[2].originalRequest).challenge = ""
    /\ frames[1].env = frames[2].env
    /\ Val(frames[1].settlement).value.status = "verified"
    /\ Val(frames[2].settlement).value.status = "verified"

Reversed(hs) == [i \in DOMAIN hs |-> hs[Len(hs) + 1 - i]]
ClassOf(h) == IF IsSome(h) THEN Some(ConstructorName(Val(h))) ELSE Nothing

\* C29 (as claimed): no presentation is accepted by two of W3cHandler,
\* MdlHandler and SdJwtHandler, so the class of the handler a call selects is
\* the same when the handlers are registered in the opposite order.
C29_CanHandleDisjoint ==
    IsSome(presentation) =>
        /\ \A i, j \in Accepting(Val(presentation)) :
              ConstructorName(handlers[i]) = ConstructorName(handlers[j])
        /\ ClassOf(find(Reversed(handlers), Val(presentation), 1)) = ClassOf(handler)

\* C30 (as claimed): verify called with an absent (null or undefined)
\* presentation fails with the error 'No presentation provided for
\* verification', and no handler's canHandle or verify has been invoked.
C30_AbsentPresentationError ==
    (pc = "Failed" /\ presentation = Nothing) =>
        /\ failure = Some(MkError("No presentation provided for verification"))
        /\ handler = Nothing /\ handlerResult = Nothing
        /\ result = Nothing

====
